---- MODULE Spec2Model ----
(***************************************************************************)
(* HomeScreen (src/src/screens/HomeScreen.tsx) and the three-route stack   *)
(* of AppNavigator (src/unnamed/part_000) as a state machine.              *)
(*                                                                         *)
(* The component state is the three useState cells tasks, loading and      *)
(* searchTerm.  Around it: the requests handed to axios.get (reqs), the    *)
(* order in which their promises settled (settled), the term captured by   *)
(* the closure currently subscribed to the navigator's 'focus' event       *)
(* (listenerTerm), the alerts raised, the navigator's route and route      *)
(* parameters, and the output of the last render (view).                   *)
(***************************************************************************)
EXTENDS Integers, Sequences, FiniteSets

VARIABLES tasks, loading, searchTerm, mounted, listenerTerm, reqs, settled,
          hung, alerts, route, params, tapped, focusPending, view

vars == <<tasks, loading, searchTerm, mounted, listenerTerm, reqs, settled,
          hung, alerts, route, params, tapped, focusPending, view>>

(* Number of requests a behaviour may issue. *)
MaxReqs == 3

(* Texts the user can have in the search field. *)
Terms == {"", "milk"}

(* interface Task, reduced to the fields the modelled handlers read. *)
Task1 == [id |-> "1", title |-> "milk"]
Task2 == [id |-> "2", title |-> "bread"]

(* Well-formed response bodies: JSON arrays of Task objects. *)
Bodies == {<<>>, <<Task2, Task1>>}

(* A 2xx body that is not an array of Task objects (unparseable text, or   *)
(* JSON of another shape).  axios hands it over as response.data; it is    *)
(* kept opaque here as a one-element value that is not a Task.             *)
BadBody == <<[raw |-> "<html>"]>>

IsTaskArray(d) == d \in Bodies

(* Ways a request can end: a 2xx answer with an array of Tasks, a 2xx      *)
(* answer with another body, no answer (network error), a non-2xx status.  *)
Outcomes ==
    {[kind |-> "ok", data |-> b] : b \in Bodies}
      \cup {[kind |-> "malformed", data |-> BadBody],
            [kind |-> "network", data |-> <<>>],
            [kind |-> "http", data |-> <<>>]}

(* axios.get rejects on a network error and on a status outside 2xx; a     *)
(* body it cannot parse as JSON is passed on as the raw text.              *)
AxiosRejects(kind) == kind \in {"network", "http"}

(* The JSX returned by HomeScreen: spinner, or the FlatList with its rows  *)
(* (ListEmptyComponent when there are none).                               *)
Render_noSpinner(t, l) ==
    [kind |-> IF Len(t) = 0 THEN "empty" ELSE "list", data |-> t]

Render(t, l) ==
    IF l /\ Len(t) = 0
      THEN [kind |-> "spinner", data |-> <<>>]
      ELSE [kind |-> IF Len(t) = 0 THEN "empty" ELSE "list", data |-> t]

(* setTasks(response.data): the list is replaced by the body. *)
SetTasks_append(cur, data) == cur \o data

SetTasks(cur, data) == data

(* The catch block: the list is not touched. *)
CatchTasks_clear(cur) == <<>>

CatchTasks(cur) == cur

(* The finally block: setLoading(false) on both paths. *)
FinallyLoading_tryOnly(l, rejected) == IF rejected THEN l ELSE FALSE

FinallyLoading(l, rejected) == FALSE

(* The focus effect: its dependency list holds searchTerm, so a new term   *)
(* replaces the listener by one whose closure holds the new term.          *)
SubscribeFocus_stale(prev, term) == prev

SubscribeFocus(prev, term) == term

(* navigateToDetail(item.id) for the row at index i. *)
DetailParams_firstRow(t, i) == <<t[1].id>>

DetailParams(t, i) == <<t[i].id>>

Init ==
    /\ tasks = <<>>
    /\ loading = FALSE
    /\ searchTerm = ""
    /\ mounted = FALSE
    /\ listenerTerm = ""
    /\ reqs = <<>>
    /\ settled = <<>>
    /\ hung = 0
    /\ alerts = 0
    /\ route = "home"
    /\ params = <<>>
    /\ tapped = 0
    /\ focusPending = TRUE
    /\ view = Render(<<>>, FALSE)

(* fetchTasks(q) up to its await: setLoading(true) and the GET.  The       *)
(* network may never answer the request (hung' is then its index).         *)
FetchTasks(q) ==
    /\ Len(reqs) < MaxReqs
    /\ reqs' = Append(reqs, [search |-> q, status |-> "pending", data |-> <<>>])
    /\ loading' = TRUE
    /\ hung' \in (IF hung = 0 THEN {0, Len(reqs) + 1} ELSE {hung})
    /\ view' = Render(tasks, TRUE)
    /\ UNCHANGED <<tasks, settled, alerts>>

(* First commit: both effects run, one fetches with the initial term, the  *)
(* other subscribes the focus listener.                                    *)
Mount ==
    /\ ~mounted
    /\ mounted' = TRUE
    /\ FetchTasks(searchTerm)
    /\ listenerTerm' = SubscribeFocus(listenerTerm, searchTerm)
    /\ UNCHANGED <<searchTerm, route, params, tapped, focusPending>>

(* onChangeText -> handleSearch(term) -> setSearchTerm(term); the render   *)
(* that follows re-runs both effects.  Setting the term it already holds   *)
(* is no state change and no effect runs.                                  *)
HandleSearch(term) ==
    /\ mounted
    /\ route = "home"
    /\ term # searchTerm
    /\ searchTerm' = term
    /\ FetchTasks(term)
    /\ listenerTerm' = SubscribeFocus(listenerTerm, term)
    /\ UNCHANGED <<mounted, route, params, tapped, focusPending>>

(* The navigator emits 'focus' to the subscribed listener. *)
FocusEvent ==
    /\ mounted
    /\ focusPending
    /\ route = "home"
    /\ focusPending' = FALSE
    /\ FetchTasks(listenerTerm)
    /\ UNCHANGED <<searchTerm, mounted, listenerTerm, route, params, tapped>>

(* Pull to refresh on the FlatList (rendered unless the spinner is). *)
Refresh ==
    /\ mounted
    /\ route = "home"
    /\ view.kind # "spinner"
    /\ FetchTasks(searchTerm)
    /\ UNCHANGED <<searchTerm, mounted, listenerTerm, route, params, tapped,
                   focusPending>>

(* The promise of request i settles: the rest of fetchTasks runs. *)
Settle(i, o) ==
    /\ i \in 1..Len(reqs)
    /\ reqs[i].status = "pending"
    /\ i # hung
    /\ reqs' = [reqs EXCEPT ![i].status = o.kind, ![i].data = o.data]
    /\ settled' = Append(settled, i)
    /\ IF AxiosRejects(o.kind)
         THEN /\ tasks' = CatchTasks(tasks)
              /\ alerts' = alerts + 1
         ELSE /\ tasks' = SetTasks(tasks, o.data)
              /\ alerts' = alerts
    /\ loading' = FinallyLoading(loading, AxiosRejects(o.kind))
    /\ view' = Render(tasks', loading')
    /\ UNCHANGED <<searchTerm, mounted, listenerTerm, hung, route, params,
                   tapped, focusPending>>

(* A TaskCard of the FlatList is pressed. *)
TapRow(i) ==
    /\ mounted
    /\ route = "home"
    /\ view.kind = "list"
    /\ IsTaskArray(view.data)
    /\ i \in 1..Len(view.data)
    /\ route' = "detail"
    /\ params' = DetailParams(view.data, i)
    /\ tapped' = i
    /\ UNCHANGED <<tasks, loading, searchTerm, mounted, listenerTerm, reqs,
                   settled, hung, alerts, focusPending, view>>

(* The floating action button is pressed. *)
TapAdd ==
    /\ mounted
    /\ route = "home"
    /\ route' = "add"
    /\ params' = <<>>
    /\ tapped' = 0
    /\ UNCHANGED <<tasks, loading, searchTerm, mounted, listenerTerm, reqs,
                   settled, hung, alerts, focusPending, view>>

(* Back from add or detail: home is the focused route again. *)
GoBack ==
    /\ route # "home"
    /\ route' = "home"
    /\ params' = <<>>
    /\ tapped' = 0
    /\ focusPending' = TRUE
    /\ UNCHANGED <<tasks, loading, searchTerm, mounted, listenerTerm, reqs,
                   settled, hung, alerts, view>>

Next ==
    \/ Mount
    \/ \E term \in Terms : HandleSearch(term)
    \/ FocusEvent
    \/ Refresh
    \/ \E i \in 1..MaxReqs, o \in Outcomes : Settle(i, o)
    \/ \E i \in 1..Len(view.data) : TapRow(i)
    \/ TapAdd
    \/ GoBack

Spec == Init /\ [][Next]_vars

(* ---------------------------------------------------------------------- *)
(* Vocabulary of the properties.                                           *)

Pending == {i \in 1..Len(reqs) : reqs[i].status = "pending"}

Rejected == {i \in 1..Len(reqs) : AxiosRejects(reqs[i].status)}

AllSettled == Len(reqs) > 0 /\ Pending = {}

(* Positions in the settling order at which a promise was fulfilled. *)
FulfilledPos == {k \in 1..Len(settled) : ~AxiosRejects(reqs[settled[k]].status)}

(* The request whose promise was fulfilled last, 0 when none was. *)
LastFulfilled ==
    IF FulfilledPos = {} THEN 0
    ELSE settled[CHOOSE k \in FulfilledPos : \A j \in FulfilledPos : j <= k]

(* The list is empty because the last applied response was the empty array. *)
EmptyFromResponse ==
    /\ LastFulfilled # 0
    /\ reqs[LastFulfilled].data = <<>>
    /\ tasks = <<>>

(* The step issued exactly one request, with search=q. *)
IssuedOne(q) ==
    /\ Len(reqs') = Len(reqs) + 1
    /\ reqs'[Len(reqs')].search = q
    /\ reqs'[Len(reqs')].status = "pending"
    /\ \A i \in 1..Len(reqs) : reqs'[i] = reqs[i]

TypeOK ==
    /\ loading \in BOOLEAN
    /\ searchTerm \in Terms
    /\ listenerTerm \in Terms
    /\ Len(reqs) <= MaxReqs
    /\ hung \in 0..Len(reqs)
    /\ route \in {"home", "add", "detail"}
    /\ view = Render(tasks, loading)

(* C1: mount, every change of the search term and every focus event issue  *)
(* one request, whose search parameter is the term the screen holds at     *)
(* that moment ("" on mount, the new term on a change, the current term    *)
(* on focus, never an older one).                                          *)
C1_FetchOnTriggers ==
    [][ /\ (~mounted /\ mounted') => IssuedOne("")
        /\ (searchTerm' # searchTerm) => IssuedOne(searchTerm')
        /\ (focusPending /\ ~focusPending') =>
              (IssuedOne(searchTerm) /\ searchTerm' = searchTerm) ]_vars

(* Mount, then the term changed to "milk", then a focus event: the third   *)
(* request carries "milk".                                                 *)
C1_Witness ==
    /\ settled = <<>>
    /\ ~focusPending
    /\ searchTerm = "milk"
    /\ Len(reqs) = 3
    /\ reqs[1].search = ""
    /\ reqs[2].search = "milk"
    /\ reqs[3].search = "milk"

(* C2 as stated: once every fetch has settled and a fetch for the current  *)
(* term succeeded, the rendered list is the response of a fetch for the    *)
(* current term, whatever the order of arrival.                            *)
C2_ListIsResponseForTerm ==
    (/\ AllSettled
     /\ \E i \in 1..Len(reqs) :
           reqs[i].search = searchTerm /\ reqs[i].status = "ok")
      => \E i \in 1..Len(reqs) :
            /\ reqs[i].search = searchTerm
            /\ ~AxiosRejects(reqs[i].status)
            /\ view.data = reqs[i].data

(* C2 amended: once every fetch has settled and the fetch fulfilled last   *)
(* was one for the current term, the rendered list is exactly that         *)
(* fetch's response.                                                       *)
C2_ListIsResponseWhenTermLast ==
    (/\ AllSettled
     /\ LastFulfilled # 0
     /\ reqs[LastFulfilled].search = searchTerm)
      => /\ view.kind # "spinner"
         /\ view.data = reqs[LastFulfilled].data

(* The term went from "" to "milk"; the response for "milk" arrived after  *)
(* the one for "" and replaced its two rows.                               *)
C2_Witness ==
    /\ AllSettled
    /\ searchTerm = "milk"
    /\ settled = <<1, 2>>
    /\ reqs[1].search = "" /\ reqs[1].data = <<Task2, Task1>>
    /\ reqs[2].search = "milk" /\ reqs[2].data = <<>>
    /\ reqs[2].status = "ok"
    /\ view.kind = "empty"
    /\ view.data = <<>>

(* C3: no fetch is cancelled or sequenced: every fulfilled response is     *)
(* applied when it arrives, so after all fetches have settled the list is  *)
(* the payload of the response fulfilled last, whatever the issue order.   *)
C3_LastResolvedWins ==
    /\ []((AllSettled /\ LastFulfilled # 0) => tasks = reqs[LastFulfilled].data)
    /\ [][\A i \in 1..Len(reqs) :
            (reqs[i].status = "pending" /\ reqs'[i].status # "pending"
               /\ ~AxiosRejects(reqs'[i].status))
              => tasks' = reqs'[i].data]_vars

(* Two overlapping fetches settled in the reverse of their issue order:    *)
(* the list is the payload of the one issued first.                        *)
C3_Witness ==
    /\ AllSettled
    /\ Len(reqs) = 2
    /\ settled = <<2, 1>>
    /\ reqs[1].status = "ok" /\ reqs[2].status = "ok"
    /\ reqs[1].data = <<Task2, Task1>>
    /\ reqs[2].data = <<>>
    /\ tasks = <<Task2, Task1>>

(* C4: while at least one issued fetch has not settled, loading is true,   *)
(* also when fetches overlap.                                              *)
C4_LoadingWhilePending == (Pending # {}) => loading

(* C5: when a fetch fails the list keeps the value it had, exactly one     *)
(* alert is raised and no request is issued.                               *)
C5_FailureKeepsList ==
    [][\A i \in 1..Len(reqs) :
          (reqs[i].status = "pending" /\ AxiosRejects(reqs'[i].status))
            => /\ tasks' = tasks
               /\ view'.data = view.data
               /\ alerts' = alerts + 1
               /\ Len(reqs') = Len(reqs)]_vars

(* A fetch failed after a list had been rendered: the list is still there  *)
(* and one alert was raised.                                               *)
C5_Witness ==
    /\ Len(reqs) = 2
    /\ settled = <<1, 2>>
    /\ reqs[1].status = "ok" /\ reqs[1].data = <<Task2, Task1>>
    /\ reqs[2].status = "network"
    /\ tasks = <<Task2, Task1>>
    /\ view.data = <<Task2, Task1>>
    /\ alerts = 1

(* C6: network error, non-2xx status and malformed body all end in the     *)
(* alert without setTasks: one alert per such fetch, and the list is       *)
(* always a well-formed array of Tasks.                                    *)
C6_OneErrorPath ==
    /\ IsTaskArray(tasks)
    /\ alerts = Cardinality({i \in 1..Len(reqs) :
                   reqs[i].status \in {"network", "http", "malformed"}})

(* C7 as stated: a list that is empty from an empty response is rendered   *)
(* as the empty-state message with no rows, also while a later fetch is    *)
(* in flight.                                                              *)
C7_EmptyStateAlways ==
    EmptyFromResponse => (view.kind = "empty" /\ view.data = <<>>)

(* C7 amended: a list that is empty from an empty response is rendered as  *)
(* the empty-state message with no rows while loading is false, and as     *)
(* the spinner while loading is true.                                      *)
C7_EmptyStateUnlessLoading ==
    EmptyFromResponse =>
       /\ view.data = <<>>
       /\ view.kind = (IF loading THEN "spinner" ELSE "empty")

(* The empty response was rendered and no fetch is in flight. *)
C7_Witness ==
    /\ EmptyFromResponse
    /\ Len(reqs) = 2
    /\ settled = <<1, 2>>
    /\ reqs[1].data = <<Task2, Task1>>
    /\ view.kind = "empty"

(* C8: a request that never settles keeps loading true in every state      *)
(* after it was issued.                                                    *)
C8_HungKeepsLoading == (hung # 0) => loading

(* C9: a tap on a row goes to detail with that row's id, a tap on the add  *)
(* button goes to add without parameters; neither issues a fetch or        *)
(* changes list, loading flag or search term.                              *)
C9_TapsOnlyNavigate ==
    [][ /\ (route = "home" /\ route' = "detail") =>
              /\ tapped' \in 1..Len(tasks)
              /\ params' = <<tasks[tapped'].id>>
              /\ UNCHANGED <<tasks, loading, searchTerm, reqs, view>>
        /\ (route = "home" /\ route' = "add") =>
              /\ params' = <<>>
              /\ UNCHANGED <<tasks, loading, searchTerm, reqs, view>> ]_vars

(* The second row of a two-row list was tapped. *)
C9_Witness ==
    /\ route = "detail"
    /\ tasks = <<Task2, Task1>>
    /\ tapped = 2
    /\ params = <<"1">>

(* C10: when no fetch is in flight, loading is false and no spinner is     *)
(* shown, whether the fetches succeeded or failed and in whatever order.   *)
C10_IdleNotLoading ==
    (Pending = {}) => (~loading /\ view.kind # "spinner")

(* A success and a failure, settled out of issue order. *)
C10_Witness ==
    /\ AllSettled
    /\ settled = <<2, 1>>
    /\ reqs[1].status = "http"
    /\ reqs[2].status = "ok"
    /\ ~loading

====
